---- MODULE Spec2Model ----
(***************************************************************************)
(* Model of the per-folder metadata journal (mdJournal) of libkbfs.        *)
(*                                                                         *)
(* The journal is an ordinal log (mdIDJournal: revision -> MdID), a        *)
(* content store (dir/mds: MdID -> encoded BareRootMetadata) and the       *)
(* coordinator's two in-memory fields branchID and lastMdID.  Every        *)
(* coordinator method is a pure operator from the journal state and the    *)
(* call's arguments to the state it leaves and the values it returns; the  *)
(* actions apply these operators with arguments drawn from small sets.     *)
(***************************************************************************)
EXTENDS Integers, Sequences, FiniteSets, TLC

(***************************************************************************)
(* Bounds of the model.                                                    *)
(***************************************************************************)
\* Revisions offered to put are 1..MaxRev.
MaxRev == 2
\* At most this many calls of put change the journal (a put that fails
\* before it writes anything is always possible).
MaxPuts == 3
\* At most this many failures are injected into the calls of one run.
MaxFaults == 1
\* The block journal's ordinals stay below MaxOrdinal.
MaxOrdinal == 3

(***************************************************************************)
(* Values.                                                                 *)
(***************************************************************************)
\* MetadataRevisionUninitialized: what the ordinal log reports when empty.
MetadataRevisionUninitialized == 0
\* MetadataRevisionInitial: the first valid revision.
MetadataRevisionInitial == 1

NullBranchID == "null"
BranchIDs == {NullBranchID, "b1", "b2"}

Merged == "Merged"
Unmerged == "Unmerged"
MergeStatuses == {Merged, Unmerged}

\* Users.  alice is a writer of the folder, bob only a reader, carol has
\* no role in it.
UIDs == {"alice", "bob", "carol"}
TlfWriters == {"alice"}
TlfReaders == {"bob"}

\* Private data a caller may put in an RMD.
Payloads == {"p", "q"}

\* MdID{}: the zero MdID, the "no entry" sentinel.
ZeroMdID == [zero |-> TRUE]

\* crypto.MakeMdID: the hash of the encoded metadata; injective, never zero.
MakeMdID(rmd) == [zero |-> FALSE, h |-> rmd]

\* ImmutableBareRootMetadata{}: the empty value getEarliest/getLatest return
\* for an empty journal.
EmptyIBRMD == [empty |-> TRUE]

\* MakeImmutableBareRootMetadata (the local timestamp is not modelled).
MakeImmutableBareRootMetadata(rmd, mdID) ==
    [empty |-> FALSE, rmd |-> rmd, mdID |-> mdID]

\* The block journal of a new directory: no ordinal, no block, no
\* reference.  refs holds a record [id, context, status] for every
\* reference the journal knows.
EmptyBlockJournal ==
    [j |-> [first |-> 0, entries |-> <<>>], blocks |-> <<>>, refs |-> {}]

\* Failures injected into a call: none, or the step that fails.
PutFailures == {"none", "embed", "encrypt", "write", "journal"}
ClearFailures == {"none", "journal", "remove"}

(***************************************************************************)
(* State.                                                                  *)
(***************************************************************************)
VARIABLES
    j,           \* mdJournal.j: the ordinal log, [first, ids]
    mds,         \* the content store dir/mds: a function MdID -> metadata
    branchID,    \* mdJournal.branchID
    lastMdID,    \* mdJournal.lastMdID
    home,        \* whether j's directory is the journal's own, dir/md_journal
    currentUID,  \* the user of this device
    blockJournal, \* the block journal: [j, blocks, refs]
    flushing,    \* the entry the flush driver is sending to the server
    puts,        \* the number of puts that changed the journal so far
    faults       \* the number of failures injected so far

vars ==
    <<j, mds, branchID, lastMdID, home, currentUID, blockJournal, flushing,
      puts, faults>>

\* The part of the state the coordinator methods read and write.
State ==
    [j |-> j, mds |-> mds, branchID |-> branchID, lastMdID |-> lastMdID,
     home |-> home]

(***************************************************************************)
(* The ordinal log, mdIDJournal (md_id_journal.go is not among the         *)
(* sources; modelled from section 4.1 of the specification).               *)
(***************************************************************************)
makeMdIDJournal == [first |-> MetadataRevisionUninitialized, ids |-> <<>>]

mdIDJournal_length(log) == Len(log.ids)

mdIDJournal_readEarliestRevision(log) ==
    IF log.ids = <<>> THEN MetadataRevisionUninitialized ELSE log.first

mdIDJournal_readLatestRevision(log) ==
    IF log.ids = <<>> THEN MetadataRevisionUninitialized
    ELSE log.first + Len(log.ids) - 1

mdIDJournal_getEarliest(log) ==
    IF log.ids = <<>> THEN ZeroMdID ELSE Head(log.ids)

mdIDJournal_getLatest(log) ==
    IF log.ids = <<>> THEN ZeroMdID ELSE log.ids[Len(log.ids)]

\* The MdID stored for revision r (r within the log).
mdIDJournal_at(log, r) == log.ids[r - log.first + 1]

\* The revisions the log holds.
mdIDJournal_revisions(log) ==
    IF log.ids = <<>> THEN {}
    ELSE log.first .. (log.first + Len(log.ids) - 1)

\* append(r, id): fails if the log is non-empty and r is not latest + 1.
mdIDJournal_append(log, r, id) ==
    IF log.ids = <<>>
    THEN [err |-> "nil", log |-> [first |-> r, ids |-> <<id>>]]
    ELSE IF r # mdIDJournal_readLatestRevision(log) + 1
    THEN [err |-> "append: bad revision", log |-> log]
    ELSE [err |-> "nil", log |-> [log EXCEPT !.ids = Append(@, id)]]

\* replaceHead(id): replaces the MdID at the latest revision.
mdIDJournal_replaceHead(log, id) ==
    IF log.ids = <<>>
    THEN [err |-> "replaceHead: empty", log |-> log]
    ELSE [err |-> "nil", log |-> [log EXCEPT !.ids[Len(log.ids)] = id]]

\* removeEarliest(): drops the earliest entry, reports whether now empty.
mdIDJournal_removeEarliest(log) ==
    IF log.ids = <<>>
    THEN [err |-> "removeEarliest: empty", empty |-> TRUE, log |-> log]
    ELSE IF Len(log.ids) = 1
    THEN [err |-> "nil", empty |-> TRUE, log |-> makeMdIDJournal]
    ELSE [err |-> "nil", empty |-> FALSE,
          log |-> [first |-> log.first + 1, ids |-> Tail(log.ids)]]

\* getRange(start, stop): the ids of the revisions in
\* [max(earliest, start), min(latest, stop)].
mdIDJournal_getRange(log, start, stop) ==
    LET lo == IF start > mdIDJournal_readEarliestRevision(log)
              THEN start ELSE mdIDJournal_readEarliestRevision(log)
        hi == IF stop < mdIDJournal_readLatestRevision(log)
              THEN stop ELSE mdIDJournal_readLatestRevision(log)
    IN IF log.ids = <<>> \/ lo > hi
       THEN [realStart |-> MetadataRevisionUninitialized, ids |-> <<>>]
       ELSE [realStart |-> lo,
             ids |-> [i \in 1..(hi - lo + 1) |->
                        mdIDJournal_at(log, lo + i - 1)]]

\* clear(): empties the log.
mdIDJournal_clear(log) == makeMdIDJournal

(***************************************************************************)
(* Metadata objects.  A RootMetadata handed to put is                      *)
(* [rev, bid, ms, prev, data]; a BareRootMetadata in the content store     *)
(* also carries lastMod, the last modifying user.  (bare_root_metadata.go  *)
(* is not among the sources; these predicates follow the specification.)   *)
(***************************************************************************)
\* rmd.IsLastModifiedBy(currentUID, currentVerifyingKey)
IsLastModifiedBy(rmd, uid) == rmd.lastMod = uid

\* rmd.IsValidAndSigned(codec, crypto, nil)
IsValidAndSigned(rmd) == rmd.rev >= MetadataRevisionInitial

\* head.CheckValidSuccessorForServer(head.mdID, rmd.bareMd): the successor
\* rules of the server.
CheckValidSuccessorForServer(head, rmd) ==
    /\ rmd.rev = head.rmd.rev + 1
    /\ rmd.prev = head.mdID
    /\ (rmd.ms = head.rmd.ms => rmd.bid = head.rmd.bid)

\* isWriterOrValidRekey(codec, currentUID, head.BareRootMetadata, rmd.bareMd)
isWriterOrValidRekey(uid, head, rmd) == uid \in TlfWriters

\* isReader(currentUID, head.BareRootMetadata, extra)
isReader(uid, head) == uid \in TlfWriters \cup TlfReaders

\* encryptMDPrivateData: the bare metadata of rmd, last modified by uid.
encryptMDPrivateData(rmd, uid) ==
    [rev |-> rmd.rev, bid |-> rmd.bid, ms |-> rmd.ms, prev |-> rmd.prev,
     data |-> rmd.data, lastMod |-> uid]

\* CodecEqual(codec, a, b)
CodecEqual(a, b) == a = b

(***************************************************************************)
(* The content store.                                                      *)
(***************************************************************************)
\* ioutil.WriteFile(j.mdPath(id), codec.Encode(rmd))
writeFile(store, id, rmd) ==
    [x \in (DOMAIN store) \cup {id} |-> IF x = id THEN rmd ELSE store[x]]

\* os.Remove(j.mdPath(id)); removing an absent file changes nothing.
removeFile(store, id) == [x \in (DOMAIN store) \ {id} |-> store[x]]

RECURSIVE removeFiles(_, _)
removeFiles(store, ids) ==
    IF ids = <<>> THEN store
    ELSE removeFiles(removeFile(store, Head(ids)), Tail(ids))

\* A result of a method that fails with error e in state st.
Fail(st, e) == [st |-> st, err |-> e, id |-> ZeroMdID]

(***************************************************************************)
(* mdJournal.getMD                                                         *)
(***************************************************************************)
getMD(st, uid, id, verifyBranchID) ==
    IF id \notin DOMAIN st.mds
    THEN [err |-> "NotExist", rmd |-> <<>>]
    ELSE LET rmd == st.mds[id] IN
         IF MakeMdID(rmd) # id
         THEN [err |-> "Metadata ID mismatch", rmd |-> <<>>]
         ELSE IF ~IsLastModifiedBy(rmd, uid)
         THEN [err |-> "not last modified by", rmd |-> <<>>]
         ELSE IF ~IsValidAndSigned(rmd)
         THEN [err |-> "invalid", rmd |-> <<>>]
         ELSE IF verifyBranchID /\ rmd.bid # st.branchID
         THEN [err |-> "Branch ID mismatch", rmd |-> <<>>]
         ELSE [err |-> "nil", rmd |-> rmd]

(***************************************************************************)
(* mdJournal.putMD: stores rmd under its ID if not already stored.         *)
(* ioFail: the write of the file fails.                                    *)
(***************************************************************************)
putMD(st, uid, rmd, ioFail) ==
    IF ~IsValidAndSigned(rmd)
    THEN [err |-> "invalid", id |-> ZeroMdID, mds |-> st.mds]
    ELSE IF ~IsLastModifiedBy(rmd, uid)
    THEN [err |-> "not last modified by", id |-> ZeroMdID, mds |-> st.mds]
    ELSE LET id == MakeMdID(rmd)
             got == getMD(st, uid, id, TRUE)
         IN IF got.err # "NotExist" /\ got.err # "nil"
            THEN [err |-> got.err, id |-> ZeroMdID, mds |-> st.mds]
            ELSE IF got.err = "nil"
            THEN \* Entry exists, so nothing else to do.
                 [err |-> "nil", id |-> ZeroMdID, mds |-> st.mds]
            ELSE IF ioFail
            THEN [err |-> "io", id |-> ZeroMdID, mds |-> st.mds]
            ELSE [err |-> "nil", id |-> id,
                  mds |-> writeFile(st.mds, id, rmd)]

(***************************************************************************)
(* mdJournal.getEarliest, mdJournal.getLatest                              *)
(***************************************************************************)
getEarliest(st, uid, verifyBranchID) ==
    LET earliestID == mdIDJournal_getEarliest(st.j) IN
    IF earliestID = ZeroMdID
    THEN [err |-> "nil", ibrmd |-> EmptyIBRMD]
    ELSE LET got == getMD(st, uid, earliestID, verifyBranchID) IN
         IF got.err # "nil"
         THEN [err |-> got.err, ibrmd |-> EmptyIBRMD]
         ELSE [err |-> "nil",
               ibrmd |-> MakeImmutableBareRootMetadata(got.rmd, earliestID)]

getLatest(st, uid, verifyBranchID) ==
    LET latestID == mdIDJournal_getLatest(st.j) IN
    IF latestID = ZeroMdID
    THEN [err |-> "nil", ibrmd |-> EmptyIBRMD]
    ELSE LET got == getMD(st, uid, latestID, verifyBranchID) IN
         IF got.err # "nil"
         THEN [err |-> got.err, ibrmd |-> EmptyIBRMD]
         ELSE [err |-> "nil",
               ibrmd |-> MakeImmutableBareRootMetadata(got.rmd, latestID)]

(***************************************************************************)
(* makeMDJournal: opening the journal kept under dir                       *)
(***************************************************************************)
\* makeMDJournal without the comparison of the endpoints' branches.
makeMDJournal_NoBIDCheck(st, uid) ==
    LET opened == [j |-> IF st.home THEN st.j ELSE makeMdIDJournal,
                   mds |-> st.mds, branchID |-> NullBranchID,
                   lastMdID |-> ZeroMdID, home |-> TRUE]
        earliest == getEarliest(opened, uid, FALSE)
        latest == getLatest(opened, uid, FALSE)
    IN IF earliest.err # "nil" THEN [st |-> opened, err |-> earliest.err]
       ELSE IF latest.err # "nil" THEN [st |-> opened, err |-> latest.err]
       ELSE IF (earliest.ibrmd = EmptyIBRMD) # (latest.ibrmd = EmptyIBRMD)
       THEN [st |-> opened, err |-> "has earliest != has latest"]
       ELSE IF earliest.ibrmd = EmptyIBRMD
       THEN [st |-> opened, err |-> "nil"]
       ELSE [st |-> [opened EXCEPT !.branchID = earliest.ibrmd.rmd.bid],
             err |-> "nil"]

\* The log read is the one at dir/md_journal: the log of st when its
\* directory is that one, no log otherwise.  The result is [st, err].
makeMDJournal(st, uid) ==
    LET opened == [j |-> IF st.home THEN st.j ELSE makeMdIDJournal,
                   mds |-> st.mds, branchID |-> NullBranchID,
                   lastMdID |-> ZeroMdID, home |-> TRUE]
        earliest == getEarliest(opened, uid, FALSE)
        latest == getLatest(opened, uid, FALSE)
    IN IF earliest.err # "nil" THEN [st |-> opened, err |-> earliest.err]
       ELSE IF latest.err # "nil" THEN [st |-> opened, err |-> latest.err]
       ELSE IF (earliest.ibrmd = EmptyIBRMD) # (latest.ibrmd = EmptyIBRMD)
       THEN [st |-> opened, err |-> "has earliest != has latest"]
       ELSE IF earliest.ibrmd = EmptyIBRMD
       THEN [st |-> opened, err |-> "nil"]
       ELSE IF earliest.ibrmd.rmd.bid # latest.ibrmd.rmd.bid
       THEN [st |-> opened, err |-> "earliest.BID != latest.BID"]
       ELSE [st |-> [opened EXCEPT !.branchID = earliest.ibrmd.rmd.bid],
             err |-> "nil"]

(***************************************************************************)
(* mdJournal.put                                                           *)
(***************************************************************************)
\* The "last known journal root" an Unmerged put chains to.
putLastMdID(st, head) ==
    IF head = EmptyIBRMD THEN st.lastMdID ELSE head.mdID

\* Which branch of the Unmerged modifications the put takes.
putCase(st, head, rmd) ==
    IF rmd.ms # Unmerged THEN "Merged"
    ELSE IF rmd.bid = NullBranchID /\ st.branchID = NullBranchID
    THEN "UnmergedError"
    ELSE IF head = EmptyIBRMD /\ st.branchID = NullBranchID
    THEN "Unmerged-3"
    ELSE IF rmd.bid = NullBranchID
    THEN "Unmerged-1"
    ELSE "Unmerged-2"

\* Case Unmerged-3: j.branchID = rmd.BID().
putAdoptBranchID(st, rmd) == [st EXCEPT !.branchID = rmd.bid]

\* Case Unmerged-1: rmd.SetBranchID(j.branchID); rmd.SetPrevRoot(lastMdID).
putSetBranchAndPrevRoot(st, head, rmd) ==
    [rmd EXCEPT !.bid = st.branchID, !.prev = putLastMdID(st, head)]

\* putCommonChecks with the branch comparison ahead of the conflict check.
putCommonChecks_BranchFirst(st, rmd) ==
    IF (rmd.ms = Merged) # (rmd.bid = NullBranchID)
    THEN "mStatus doesn't match bid"
    ELSE IF rmd.bid # st.branchID
    THEN "Branch ID mismatch"
    ELSE IF rmd.ms = Merged /\ st.branchID # NullBranchID
    THEN "MDJournalConflictError"
    ELSE "nil"

\* The checks common to all the cases; "nil" when they pass.
putCommonChecks(st, rmd) ==
    IF (rmd.ms = Merged) # (rmd.bid = NullBranchID)
    THEN "mStatus doesn't match bid"
    ELSE IF rmd.ms = Merged /\ st.branchID # NullBranchID
    THEN "MDJournalConflictError"
    ELSE IF rmd.bid # st.branchID
    THEN "Branch ID mismatch"
    ELSE "nil"

\* putCheckHead without the permission check.
putCheckHead_NoPermission(uid, head, rmd) ==
    IF head = EmptyIBRMD THEN "nil"
    ELSE IF rmd.rev # head.rmd.rev /\ ~CheckValidSuccessorForServer(head, rmd)
    THEN "invalid successor"
    ELSE "nil"

\* Permissions and consistency with head, if it exists.
putCheckHead(uid, head, rmd) ==
    IF head = EmptyIBRMD THEN "nil"
    ELSE IF ~isWriterOrValidRekey(uid, head, rmd)
    THEN "MDServerErrorUnauthorized"
    ELSE IF rmd.rev # head.rmd.rev /\ ~CheckValidSuccessorForServer(head, rmd)
    THEN "invalid successor"
    ELSE "nil"

\* putAppendOrReplace with the revision test inverted.
putAppendOrReplace_Inverted(log, head, rmd, brmd, id) ==
    IF head # EmptyIBRMD /\ rmd.rev # head.rmd.rev
    THEN mdIDJournal_replaceHead(log, id)
    ELSE mdIDJournal_append(log, brmd.rev, id)

\* putAppendOrReplace replacing the head whenever there is one.
putAppendOrReplace_AlwaysReplace(log, head, rmd, brmd, id) ==
    IF head # EmptyIBRMD
    THEN mdIDJournal_replaceHead(log, id)
    ELSE mdIDJournal_append(log, brmd.rev, id)

\* replaceHead when rmd has the head's revision, append otherwise.
putAppendOrReplace(log, head, rmd, brmd, id) ==
    IF head # EmptyIBRMD /\ rmd.rev = head.rmd.rev
    THEN mdIDJournal_replaceHead(log, id)
    ELSE mdIDJournal_append(log, brmd.rev, id)

\* A put that keeps the branch ID it adopted when it fails.
putRevertBranchID_Keep(case, r) == r

\* The deferred function of case Unmerged-3: revert the branch ID on error.
putRevertBranchID(case, r) ==
    IF case = "Unmerged-3" /\ r.err # "nil"
    THEN [r EXCEPT !.st.branchID = NullBranchID]
    ELSE r

EmbedError == "MD has embedded block changes, but shouldn't"

\* put from the common checks on; st and rmd are already modified for the
\* Unmerged cases.
putCommon(st, uid, head, rmd, fail) ==
    IF putCommonChecks(st, rmd) # "nil"
    THEN Fail(st, putCommonChecks(st, rmd))
    ELSE IF putCheckHead(uid, head, rmd) # "nil"
    THEN Fail(st, putCheckHead(uid, head, rmd))
    ELSE IF fail = "embed"
    THEN Fail(st, EmbedError)
    ELSE IF fail = "encrypt"
    THEN Fail(st, "encrypt")
    ELSE LET brmd == encryptMDPrivateData(rmd, uid)
             stored == putMD(st, uid, brmd, fail = "write")
             st1 == [st EXCEPT !.mds = stored.mds]
             logged == putAppendOrReplace(st.j, head, rmd, brmd, stored.id)
         IN IF stored.err # "nil"
            THEN Fail(st1, stored.err)
            ELSE IF fail = "journal"
            THEN Fail(st1, "io")
            ELSE IF logged.err # "nil"
            THEN Fail(st1, logged.err)
            ELSE [st |-> [st1 EXCEPT !.j = logged.log,
                                     !.lastMdID = ZeroMdID],
                  err |-> "nil", id |-> stored.id]

put(st, uid, rmd, fail) ==
    LET latest == getLatest(st, uid, TRUE)
        head == latest.ibrmd
        case == putCase(st, head, rmd)
        st1 == IF case = "Unmerged-3" THEN putAdoptBranchID(st, rmd) ELSE st
        rmd1 == IF case = "Unmerged-1"
                THEN putSetBranchAndPrevRoot(st, head, rmd) ELSE rmd
    IN IF latest.err # "nil"
       THEN Fail(st, latest.err)
       ELSE IF case = "UnmergedError"
       THEN Fail(st, "Unmerged put with null branch IDs")
       ELSE putRevertBranchID(case, putCommon(st1, uid, head, rmd1, fail))

\* The points of put at which the process may stop: before the content
\* file is written, in the middle of ioutil.WriteFile, after putMD and
\* before the ordinal log is updated, and after the update of the log.
PutCrashes == {"before", "partial", "stored", "logged"}

\* The content of a file whose write was cut short.
PartialFile == [partial |-> TRUE]

\* The directory a put leaves when the process stops at point crash; the
\* fields branchID and lastMdID are lost with the process.
putCrash(st, uid, rmd, crash) ==
    LET written == put(st, uid, rmd, "write")
        stored == put(st, uid, rmd, "journal")
        logged == put(st, uid, rmd, "none")
        newIDs == DOMAIN stored.st.mds \ DOMAIN st.mds
    IN CASE crash = "before" -> st
         [] crash = "partial" ->
              IF written.err = "io" /\ newIDs # {}
              THEN [st EXCEPT !.mds = writeFile(@, CHOOSE id \in newIDs : TRUE,
                                                PartialFile)]
              ELSE st
         [] crash = "stored" -> [st EXCEPT !.mds = stored.st.mds]
         [] crash = "logged" ->
              [st EXCEPT !.mds = logged.st.mds, !.j = logged.st.j]

(***************************************************************************)
(* mdJournal.getNextEntryToFlush                                           *)
(***************************************************************************)
\* The nil *RootMetadataSigned.
NilRMDS == [nil |-> TRUE]

\* RootMetadataSigned{MD: mbrmd}, signed (the signature is not modelled).
signMD(rmd) == [nil |-> FALSE, MD |-> rmd]

\* getNextEntryToFlush reading the latest entry instead of the earliest.
getNextEntryToFlush_Latest(st, uid, end, signFail) ==
    LET latest == getLatest(st, uid, TRUE)
        rmd == latest.ibrmd
    IN IF latest.err # "nil"
       THEN [st |-> st, err |-> latest.err, id |-> ZeroMdID,
             rmds |-> NilRMDS]
       ELSE IF rmd = EmptyIBRMD \/ rmd.rmd.rev >= end
       THEN [st |-> st, err |-> "nil", id |-> ZeroMdID, rmds |-> NilRMDS]
       ELSE IF signFail
       THEN [st |-> st, err |-> "sign", id |-> ZeroMdID, rmds |-> NilRMDS]
       ELSE [st |-> st, err |-> "nil", id |-> rmd.mdID,
             rmds |-> signMD(rmd.rmd)]

\* signFail: signing the metadata fails.
getNextEntryToFlush(st, uid, end, signFail) ==
    LET earliest == getEarliest(st, uid, TRUE)
        rmd == earliest.ibrmd
    IN IF earliest.err # "nil"
       THEN [st |-> st, err |-> earliest.err, id |-> ZeroMdID,
             rmds |-> NilRMDS]
       ELSE IF rmd = EmptyIBRMD \/ rmd.rmd.rev >= end
       THEN [st |-> st, err |-> "nil", id |-> ZeroMdID, rmds |-> NilRMDS]
       ELSE IF signFail
       THEN [st |-> st, err |-> "sign", id |-> ZeroMdID, rmds |-> NilRMDS]
       ELSE [st |-> st, err |-> "nil", id |-> rmd.mdID,
             rmds |-> signMD(rmd.rmd)]

(***************************************************************************)
(* mdJournal.removeFlushedEntry                                            *)
(***************************************************************************)
\* removeFlushedLastMdID saving the MdID of every removed entry.
removeFlushedLastMdID_Always(st, empty, mdID) == mdID

\* Since the journal is now empty, set lastMdID.
removeFlushedLastMdID(st, empty, mdID) ==
    IF empty THEN mdID ELSE st.lastMdID

\* removeFlushedEntry without the comparison of rmds with the earliest RMD.
removeFlushedEntry_NoCodecCheck(st, uid, mdID, rmdsMD, removeFail) ==
    LET earliest == getEarliest(st, uid, TRUE)
        rmd == earliest.ibrmd
        removed == mdIDJournal_removeEarliest(st.j)
    IN IF earliest.err # "nil"
       THEN Fail(st, earliest.err)
       ELSE IF rmd = EmptyIBRMD
       THEN Fail(st, "mdJournal unexpectedly empty")
       ELSE IF mdID # rmd.mdID
       THEN Fail(st, "Expected mdID")
       ELSE IF removed.err # "nil"
       THEN Fail(st, removed.err)
       ELSE [st |-> [st EXCEPT
                       !.j = removed.log,
                       !.lastMdID =
                           removeFlushedLastMdID(st, removed.empty, mdID),
                       !.mds = IF removeFail THEN @ ELSE removeFile(@, mdID)],
             err |-> IF removeFail THEN "io"
                     ELSE IF mdID \in DOMAIN st.mds THEN "nil"
                     ELSE "NotExist",
             id |-> ZeroMdID]

\* removeFail: os.Remove of the content file fails.
removeFlushedEntry(st, uid, mdID, rmdsMD, removeFail) ==
    LET earliest == getEarliest(st, uid, TRUE)
        rmd == earliest.ibrmd
        removed == mdIDJournal_removeEarliest(st.j)
    IN IF earliest.err # "nil"
       THEN Fail(st, earliest.err)
       ELSE IF rmd = EmptyIBRMD
       THEN Fail(st, "mdJournal unexpectedly empty")
       ELSE IF mdID # rmd.mdID
       THEN Fail(st, "Expected mdID")
       ELSE IF ~CodecEqual(rmd.rmd, rmdsMD)
       THEN Fail(st, "Given RootMetadataSigned doesn't match earliest")
       ELSE IF removed.err # "nil"
       THEN Fail(st, removed.err)
       ELSE [st |-> [st EXCEPT
                       !.j = removed.log,
                       !.lastMdID =
                           removeFlushedLastMdID(st, removed.empty, mdID),
                       !.mds = IF removeFail THEN @ ELSE removeFile(@, mdID)],
             err |-> IF removeFail THEN "io"
                     ELSE IF mdID \in DOMAIN st.mds THEN "nil"
                     ELSE "NotExist",
             id |-> ZeroMdID]

\* A flush driver with the journal to itself: it repeats
\* getNextEntryToFlush(end) and removeFlushedEntry with what it got, at most
\* n times, and stops at the null sentinel or at an error.  removed lists
\* the revisions of the entries removed, in order.
RECURSIVE flushLoop(_, _, _, _)
flushLoop(st, uid, end, n) ==
    LET next == getNextEntryToFlush(st, uid, end, FALSE)
        r == removeFlushedEntry(st, uid, next.id, next.rmds.MD, FALSE)
        rest == flushLoop(r.st, uid, end, n - 1)
    IN IF n = 0 \/ next.err # "nil" \/ next.rmds = NilRMDS
       THEN [st |-> st, err |-> next.err, removed |-> <<>>]
       ELSE IF r.err # "nil"
       THEN [st |-> r.st, err |-> r.err, removed |-> <<>>]
       ELSE [rest EXCEPT !.removed = <<next.rmds.MD.rev>> \o @]

(***************************************************************************)
(* mdJournal.convertToBranch                                               *)
(***************************************************************************)
\* convertRewrite without SetPrevRoot.
convertRewrite_KeepPrevRoot(rmd, bid, i, prevID) ==
    [rmd EXCEPT !.ms = Unmerged, !.bid = bid]

\* The rewritten metadata of entry i (0-based): unmerged, on branch bid,
\* chained to the new ID of the entry before it.
convertRewrite(rmd, bid, i, prevID) ==
    [rmd EXCEPT !.ms = Unmerged,
                !.bid = bid,
                !.prev = IF i > 0 THEN prevID ELSE @]

\* Failures injected into convertToBranch: none, or the step that fails
\* and, for a step of the loop, the (0-based) entry at which it fails.
\* "setup" is a failure before the loop: reading the log, making the
\* branch ID or making the scratch directory.
ConvertLoopSteps == {"read", "sign", "write", "append"}
NoConvertFailure == [step |-> "none", at |-> 0]
ConvertFailures ==
    {NoConvertFailure, [step |-> "setup", at |-> 0],
     [step |-> "move1", at |-> 0], [step |-> "move2", at |-> 0]}
        \cup {[step |-> s, at |-> i] :
                s \in ConvertLoopSteps, i \in 0..(MaxRev - 1)}

\* A loop that forgets the content files it makes.
convertRemember_Forget(mdsToRemove, newID) == mdsToRemove

\* mdsToRemove = append(mdsToRemove, newID): the content file just made is
\* one the deferred function removes.
convertRemember(mdsToRemove, newID) == Append(mdsToRemove, newID)

\* The loop over allMdIDs, from entry i on.  acc is
\* [mds, temp, prevID, mdsToRemove]; the result adds err.
RECURSIVE convertLoop(_, _, _, _, _, _, _)
convertLoop(st, uid, bid, allMdIDs, i, acc, fail) ==
    IF i >= Len(allMdIDs)
    THEN [err |-> "nil", mds |-> acc.mds, temp |-> acc.temp,
          mdsToRemove |-> acc.mdsToRemove]
    ELSE LET id == allMdIDs[i + 1]
             fails(step) == fail.step = step /\ fail.at = i
             cur == [st EXCEPT !.mds = acc.mds]
             got == getMD(cur, uid, id, TRUE)
             brmd == convertRewrite(got.rmd, bid, i, acc.prevID)
             stored == putMD(cur, uid, brmd, fails("write"))
             remembered == convertRemember(acc.mdsToRemove, stored.id)
             appended == mdIDJournal_append(acc.temp, brmd.rev, stored.id)
         IN IF fails("read") \/ got.err # "nil"
            THEN [err |-> IF fails("read") THEN "io" ELSE got.err,
                  mds |-> acc.mds, temp |-> acc.temp,
                  mdsToRemove |-> acc.mdsToRemove]
            ELSE IF fails("sign")
            THEN [err |-> "sign", mds |-> acc.mds, temp |-> acc.temp,
                  mdsToRemove |-> acc.mdsToRemove]
            ELSE IF stored.err # "nil"
            THEN [err |-> stored.err, mds |-> acc.mds, temp |-> acc.temp,
                  mdsToRemove |-> acc.mdsToRemove]
            ELSE IF fails("append") \/ appended.err # "nil"
            THEN [err |-> IF fails("append") THEN "io" ELSE appended.err,
                  mds |-> stored.mds, temp |-> acc.temp,
                  mdsToRemove |-> remembered]
            ELSE convertLoop(st, uid, bid, allMdIDs, i + 1,
                     [mds |-> stored.mds, temp |-> appended.log,
                      prevID |-> stored.id, mdsToRemove |-> remembered],
                     fail)

\* The deferred os.RemoveAll(journalTempDir): of the scratch directories
\* that exist, the one journalTempDir names is removed.
convertRemoveTempDir(dirs, journalTempDir) == dirs \ {journalTempDir}

\* convertToBranch without the check that the journal is not on a branch.
convertToBranch_Reentrant(st, uid, bid, fail) ==
    LET earliestRevision == mdIDJournal_readEarliestRevision(st.j)
        latestRevision == mdIDJournal_readLatestRevision(st.j)
        allMdIDs == mdIDJournal_getRange(
                        st.j, earliestRevision, latestRevision).ids
        done == convertLoop(st, uid, bid, allMdIDs, 0,
                    [mds |-> st.mds, temp |-> makeMdIDJournal,
                     prevID |-> ZeroMdID, mdsToRemove |-> <<>>], fail)
        newRemoved == removeFiles(done.mds, done.mdsToRemove)
    IN IF fail.step = "setup"
       THEN [st |-> st, err |-> "io", bid |-> NullBranchID, dirs |-> {}]
       ELSE IF done.err # "nil" \/ fail.step = "move1"
       THEN [st |-> [st EXCEPT !.mds = newRemoved],
             err |-> IF done.err # "nil" THEN done.err ELSE "io",
             bid |-> NullBranchID,
             dirs |-> convertRemoveTempDir({"temp"}, "temp")]
       ELSE IF fail.step = "move2"
       THEN [st |-> [st EXCEPT !.mds = newRemoved, !.home = FALSE],
             err |-> "io", bid |-> NullBranchID,
             dirs |-> convertRemoveTempDir({"temp", "temp.old"}, "temp")]
       ELSE [st |-> [st EXCEPT !.j = done.temp,
                               !.branchID = bid,
                               !.mds = removeFiles(done.mds, allMdIDs)],
             err |-> "nil", bid |-> bid,
             dirs |-> convertRemoveTempDir({"temp.old"}, "temp.old")]

\* The result is the state left, the error, the new branch ID and the
\* scratch directories (journalTempDir "temp" and oldJournalTempDir
\* "temp.old") that exist when the call returns.
convertToBranch(st, uid, bid, fail) ==
    LET earliestRevision == mdIDJournal_readEarliestRevision(st.j)
        latestRevision == mdIDJournal_readLatestRevision(st.j)
        allMdIDs == mdIDJournal_getRange(
                        st.j, earliestRevision, latestRevision).ids
        done == convertLoop(st, uid, bid, allMdIDs, 0,
                    [mds |-> st.mds, temp |-> makeMdIDJournal,
                     prevID |-> ZeroMdID, mdsToRemove |-> <<>>], fail)
        newRemoved == removeFiles(done.mds, done.mdsToRemove)
    IN IF st.branchID # NullBranchID
       THEN [st |-> st, err |-> "convertToBranch called with BID",
             bid |-> NullBranchID, dirs |-> {}]
       ELSE IF fail.step = "setup"
       THEN [st |-> st, err |-> "io", bid |-> NullBranchID, dirs |-> {}]
       ELSE IF done.err # "nil" \/ fail.step = "move1"
       THEN \* the deferred function removes the scratch log and the new MDs
            [st |-> [st EXCEPT !.mds = newRemoved],
             err |-> IF done.err # "nil" THEN done.err ELSE "io",
             bid |-> NullBranchID,
             dirs |-> convertRemoveTempDir({"temp"}, "temp")]
       ELSE IF fail.step = "move2"
       THEN \* the journal has been moved to oldJournalTempDir, where j.j
            \* still reads and writes it; the scratch log is removed
            [st |-> [st EXCEPT !.mds = newRemoved, !.home = FALSE],
             err |-> "io", bid |-> NullBranchID,
             dirs |-> convertRemoveTempDir({"temp", "temp.old"}, "temp")]
       ELSE \* the deferred function removes the old journal and the old MDs
            [st |-> [st EXCEPT !.j = done.temp,
                               !.branchID = bid,
                               !.mds = removeFiles(done.mds, allMdIDs)],
             err |-> "nil", bid |-> bid,
             dirs |-> convertRemoveTempDir({"temp.old"}, "temp.old")]

\* The points of convertToBranch at which the process may stop: at a step
\* of the loop, after the first move, or after the second move and before
\* the deferred function has run.
ConvertCrashes ==
    {[step |-> "move1", at |-> 0], [step |-> "move2", at |-> 0]}
        \cup {[step |-> s, at |-> i] :
                s \in ConvertLoopSteps, i \in 0..(MaxRev - 1)}

\* What is on disk when convertToBranch stops at crash: nothing the
\* deferred function removes has been removed.  Until the first move the
\* journal's directory holds the old log, between the two moves it holds
\* none, after the second it holds the scratch log.
convertToBranchCrash(st, uid, bid, crash) ==
    LET earliestRevision == mdIDJournal_readEarliestRevision(st.j)
        latestRevision == mdIDJournal_readLatestRevision(st.j)
        allMdIDs == mdIDJournal_getRange(
                        st.j, earliestRevision, latestRevision).ids
        done == convertLoop(st, uid, bid, allMdIDs, 0,
                    [mds |-> st.mds, temp |-> makeMdIDJournal,
                     prevID |-> ZeroMdID, mdsToRemove |-> <<>>], crash)
    IN IF st.branchID # NullBranchID
       THEN st
       ELSE IF done.err # "nil"
       THEN [st EXCEPT !.mds = done.mds]
       ELSE IF crash.step = "move1"
       THEN [st EXCEPT !.mds = done.mds, !.home = FALSE]
       ELSE IF crash.step = "move2"
       THEN [st EXCEPT !.mds = done.mds, !.j = done.temp]
       ELSE [st EXCEPT !.mds = done.mds]

(***************************************************************************)
(* mdJournal.checkGetParams, getHead, clear                                *)
(***************************************************************************)
checkGetParams(st, uid) ==
    LET latest == getLatest(st, uid, TRUE) IN
    IF latest.err # "nil"
    THEN [err |-> latest.err, ibrmd |-> EmptyIBRMD]
    ELSE IF latest.ibrmd # EmptyIBRMD /\ ~isReader(uid, latest.ibrmd)
    THEN [err |-> "MDServerErrorUnauthorized", ibrmd |-> EmptyIBRMD]
    ELSE latest

getHead(st, uid) == checkGetParams(st, uid)

\* The loop of getRange over mdIDs from index i on; acc holds the metadata
\* read so far.  A stored revision other than realStart + i panics.
RECURSIVE getRangeLoop(_, _, _, _, _, _)
getRangeLoop(st, uid, realStart, mdIDs, i, acc) ==
    IF i > Len(mdIDs) THEN [err |-> "nil", rmds |-> acc]
    ELSE LET expectedRevision == realStart + (i - 1)
             got == getMD(st, uid, mdIDs[i], TRUE)
         IN IF got.err # "nil" THEN [err |-> got.err, rmds |-> <<>>]
            ELSE IF expectedRevision # got.rmd.rev
            THEN [err |-> "panic", rmds |-> <<>>]
            ELSE getRangeLoop(st, uid, realStart, mdIDs, i + 1,
                     Append(acc, MakeImmutableBareRootMetadata(
                                     got.rmd, mdIDs[i])))

\* getRange taking the metadata of the latest entry for every revision.
getRange_AllLatest(st, uid, start, stop) ==
    LET checked == checkGetParams(st, uid)
        range == mdIDJournal_getRange(st.j, start, stop)
    IN IF checked.err # "nil" THEN [err |-> checked.err, rmds |-> <<>>]
       ELSE [err |-> "nil",
             rmds |-> [i \in 1..Len(range.ids) |-> checked.ibrmd]]

getRange(st, uid, start, stop) ==
    LET checked == checkGetParams(st, uid)
        range == mdIDJournal_getRange(st.j, start, stop)
    IN IF checked.err # "nil" THEN [err |-> checked.err, rmds |-> <<>>]
       ELSE getRangeLoop(st, uid, range.realStart, range.ids, 1, <<>>)

\* clear without the check that bid is not the master branch.
clear_NoMasterCheck(st, uid, bid, fail) ==
    LET got == getHead(st, uid)
        head == got.ibrmd
        earliestRevision == mdIDJournal_readEarliestRevision(st.j)
        latestRevision == mdIDJournal_readLatestRevision(st.j)
        allMdIDs == mdIDJournal_getRange(
                        st.j, earliestRevision, latestRevision).ids
        st1 == [st EXCEPT !.branchID = NullBranchID]
        st2 == [st1 EXCEPT !.j = mdIDJournal_clear(@)]
    IN IF got.err # "nil"
       THEN Fail(st, got.err)
       ELSE IF head = EmptyIBRMD \/ head.rmd.bid # bid
       THEN [st |-> st, err |-> "nil", id |-> ZeroMdID]
       ELSE IF fail = "journal"
       THEN [st |-> st1, err |-> "nil", id |-> ZeroMdID]
       ELSE IF fail = "remove"
       THEN Fail(st2, "io")
       ELSE [st |-> [st2 EXCEPT !.mds = removeFiles(@, allMdIDs)],
             err |-> "nil", id |-> ZeroMdID]

\* clear without the comparison of bid with the branch of the head.
clear_AnyBranch(st, uid, bid, fail) ==
    LET got == getHead(st, uid)
        head == got.ibrmd
        earliestRevision == mdIDJournal_readEarliestRevision(st.j)
        latestRevision == mdIDJournal_readLatestRevision(st.j)
        allMdIDs == mdIDJournal_getRange(
                        st.j, earliestRevision, latestRevision).ids
        st1 == [st EXCEPT !.branchID = NullBranchID]
        st2 == [st1 EXCEPT !.j = mdIDJournal_clear(@)]
    IN IF bid = NullBranchID
       THEN Fail(st, "Cannot clear master branch")
       ELSE IF got.err # "nil"
       THEN Fail(st, got.err)
       ELSE IF head = EmptyIBRMD
       THEN [st |-> st, err |-> "nil", id |-> ZeroMdID]
       ELSE IF fail = "journal"
       THEN [st |-> st1, err |-> "nil", id |-> ZeroMdID]
       ELSE IF fail = "remove"
       THEN Fail(st2, "io")
       ELSE [st |-> [st2 EXCEPT !.mds = removeFiles(@, allMdIDs)],
             err |-> "nil", id |-> ZeroMdID]

\* fail = "journal": emptying the ordinal log fails;
\* fail = "remove": removing the first content file fails.
clear(st, uid, bid, fail) ==
    LET got == getHead(st, uid)
        head == got.ibrmd
        earliestRevision == mdIDJournal_readEarliestRevision(st.j)
        latestRevision == mdIDJournal_readLatestRevision(st.j)
        allMdIDs == mdIDJournal_getRange(
                        st.j, earliestRevision, latestRevision).ids
        st1 == [st EXCEPT !.branchID = NullBranchID]
        st2 == [st1 EXCEPT !.j = mdIDJournal_clear(@)]
    IN IF bid = NullBranchID
       THEN Fail(st, "Cannot clear master branch")
       ELSE IF got.err # "nil"
       THEN Fail(st, got.err)
       ELSE IF head = EmptyIBRMD \/ head.rmd.bid # bid
       THEN [st |-> st, err |-> "nil", id |-> ZeroMdID]
       ELSE IF fail = "journal"
       THEN [st |-> st1, err |-> "nil", id |-> ZeroMdID]
       ELSE IF fail = "remove"
       THEN Fail(st2, "io")
       ELSE [st |-> [st2 EXCEPT !.mds = removeFiles(@, allMdIDs)],
             err |-> "nil", id |-> ZeroMdID]

(***************************************************************************)
(* The journal as a state machine.                                         *)
(***************************************************************************)
EmptyStore == [x \in {} |-> x]

\* The flush driver between two flushes: no entry is on its way.
NotFlushing == [id |-> ZeroMdID, rmds |-> NilRMDS, log |-> makeMdIDJournal]

\* The MdIDs in the ordinal log.
LogIds == {j.ids[i] : i \in 1..Len(j.ids)}

\* The metadata objects in the content store.
StoredRMDs == {mds[id] : id \in DOMAIN mds}

\* The prevRoot values a caller may give an RMD: none, the last flushed
\* root, the ID of the latest entry (a successor of the head), or the
\* prevRoot of the latest entry (a retry of the head).
PrevRootChoices ==
    {ZeroMdID, lastMdID, mdIDJournal_getLatest(j)}
        \cup {mds[id].prev : id \in {mdIDJournal_getLatest(j)} \cap DOMAIN mds}

\* The branch IDs a caller may give an RMD.
CallerBranchIDs == {NullBranchID, "b1"}

\* The RootMetadata objects a caller may hand to put.
\* The data a caller may give an RMD of revision rev: a rewrite of the head
\* revision may carry either payload, a new revision carries the first.
DataChoices(rev) ==
    IF j.ids # <<>> /\ rev = mdIDJournal_readLatestRevision(j)
    THEN Payloads ELSE {"p"}

PutInputsUpTo(maxRev) ==
    {rmd \in [rev : 1..maxRev, bid : CallerBranchIDs, ms : MergeStatuses,
              prev : PrevRootChoices, data : Payloads] :
        rmd.data \in DataChoices(rmd.rev)}

PutInputs == PutInputsUpTo(MaxRev)

\* crypto.MakeRandomBranchID: a random non-null ID; random IDs do not
\* collide with the branch of any stored metadata.
FreshBranchIDs ==
    (BranchIDs \ {NullBranchID}) \ {rmd.bid : rmd \in StoredRMDs}

\* A metadata object no journal holds, for calls with a wrong argument.
BogusRMD ==
    [rev |-> MetadataRevisionInitial, bid |-> NullBranchID, ms |-> Merged,
     prev |-> ZeroMdID, data |-> "bogus", lastMod |-> "alice"]

Init ==
    /\ j = makeMdIDJournal
    /\ mds = EmptyStore
    /\ branchID = NullBranchID
    /\ lastMdID = ZeroMdID
    /\ home = TRUE
    /\ currentUID = "alice"
    /\ blockJournal = EmptyBlockJournal
    /\ flushing = NotFlushing
    /\ puts = 0
    /\ faults = 0

\* The state after a call that left st.
Becomes(st) ==
    /\ j' = st.j
    /\ mds' = st.mds
    /\ branchID' = st.branchID
    /\ lastMdID' = st.lastMdID
    /\ home' = st.home
    /\ UNCHANGED <<currentUID, blockJournal, flushing>>

\* The failures that can be injected into put(rmd): a failure of a step
\* changes only a call that gets past the checks before the first such step.
PutFailuresFor(rmd) ==
    IF put(State, currentUID, rmd, "embed").err = EmbedError
    THEN PutFailures ELSE {"none"}

\* put(rmd), with one of the given failures injected.
PutWith(failures) ==
    \E rmd \in PutInputs : \E fail \in PutFailuresFor(rmd) \cap failures :
      LET r == put(State, currentUID, rmd, fail) IN
      /\ r.st # State => puts < MaxPuts
      /\ fail # "none" => faults < MaxFaults
      /\ Becomes(r.st)
      /\ puts' = IF r.st # State THEN puts + 1 ELSE puts
      /\ faults' = IF fail # "none" THEN faults + 1 ELSE faults

\* getNextEntryToFlush(end); the revisions a caller may give as end.
FlushEnds == 0..(MaxRev + 1)

\* getHead and getRange(start, stop), which read the journal only.
GetRange ==
    \E start \in FlushEnds, stop \in FlushEnds :
      LET head == getHead(State, currentUID)
          r == getRange(State, currentUID, start, stop)
      IN /\ Becomes(State)
         /\ UNCHANGED <<puts, faults>>

GetNextEntryToFlush ==
    \E end \in FlushEnds :
      LET r == getNextEntryToFlush(State, currentUID, end, FALSE) IN
      /\ Becomes(r.st)
      /\ UNCHANGED <<puts, faults>>

\* removeFlushedEntry(mdID, rmds), with or without a failure of the
\* removal of the content file.
RemoveFlushedWith(failures) ==
    \E mdID \in LogIds \cup {ZeroMdID}, rmdsMD \in StoredRMDs \cup {BogusRMD},
       removeFail \in failures :
      LET r == removeFlushedEntry(State, currentUID, mdID, rmdsMD,
                                  removeFail)
      IN /\ removeFail => faults < MaxFaults
         /\ Becomes(r.st)
         /\ faults' = IF removeFail THEN faults + 1 ELSE faults
         /\ UNCHANGED puts

\* convertToBranch, with one of the given failures injected.
ConvertWith(failures) ==
    \E bid \in FreshBranchIDs, fail \in failures :
      LET r == convertToBranch(State, currentUID, bid, fail) IN
      /\ fail # NoConvertFailure => faults < MaxFaults
      /\ Becomes(r.st)
      /\ faults' = IF fail # NoConvertFailure THEN faults + 1 ELSE faults
      /\ UNCHANGED puts

\* clear(bid), with one of the given failures injected.
ClearWith(failures) ==
    \E bid \in BranchIDs, fail \in failures :
      LET r == clear(State, currentUID, bid, fail) IN
      /\ fail # "none" => faults < MaxFaults
      /\ Becomes(r.st)
      /\ faults' = IF fail # "none" THEN faults + 1 ELSE faults
      /\ UNCHANGED puts

\* The calls on a healthy disk and with healthy collaborators.
Put == PutWith({"none"})
ConvertToBranch == ConvertWith({NoConvertFailure})
Clear == ClearWith({"none"})
RemoveFlushedEntry == RemoveFlushedWith({FALSE})

\* The calls with failures of the disk, the encryption or the splitter.
PutIO == PutWith(PutFailures)
ConvertToBranchIO == ConvertWith(ConvertFailures)
ClearIO == ClearWith(ClearFailures)
RemoveFlushedEntryIO == RemoveFlushedWith(BOOLEAN)

Next ==
    \/ Put
    \/ GetRange
    \/ GetNextEntryToFlush
    \/ RemoveFlushedEntry
    \/ ConvertToBranch
    \/ Clear

NextIO ==
    \/ PutIO
    \/ GetRange
    \/ GetNextEntryToFlush
    \/ RemoveFlushedEntryIO
    \/ ConvertToBranchIO
    \/ ClearIO

\* The journal without injected failures.
Spec == Init /\ [][Next]_vars

\* The journal with at most MaxFaults injected failures.
SpecIO == Init /\ [][NextIO]_vars

\* The journal of any user: a writer, a reader or a user with no role in
\* the folder.  Every call is made with the user of the journal.
InitUsers ==
    /\ j = makeMdIDJournal
    /\ mds = EmptyStore
    /\ branchID = NullBranchID
    /\ lastMdID = ZeroMdID
    /\ home = TRUE
    /\ currentUID \in UIDs
    /\ blockJournal = EmptyBlockJournal
    /\ flushing = NotFlushing
    /\ puts = 0
    /\ faults = 0

SpecUsers == InitUsers /\ [][Next]_vars

(***************************************************************************)
(* The flush driver.  It takes the next entry with getNextEntryToFlush,    *)
(* releases the lock while it sends the entry to the server, and then      *)
(* calls removeFlushedEntry with what it took; other calls on the journal  *)
(* run in between.  flushing holds the entry taken and, for reference, the *)
(* log at the time it was taken.                                           *)
(***************************************************************************)
\* Beside the driver the journal takes one more put, of one more revision,
\* than the journal alone.
MaxFlushRev == MaxRev + 1
MaxFlushPuts == MaxPuts + 1

\* The end the driver passes: a revision beyond every revision of the log.
FlushAll == MaxFlushRev + 1

\* put(rmd) beside the driver.
FlushPut ==
    \E rmd \in PutInputsUpTo(MaxFlushRev) :
      LET r == put(State, currentUID, rmd, "none") IN
      /\ r.st # State => puts < MaxFlushPuts
      /\ Becomes(r.st)
      /\ puts' = IF r.st # State THEN puts + 1 ELSE puts
      /\ UNCHANGED faults

FlushGet ==
    LET r == getNextEntryToFlush(State, currentUID, FlushAll, FALSE) IN
    /\ flushing = NotFlushing
    /\ flushing' = IF r.err = "nil" /\ r.rmds # NilRMDS
                   THEN [id |-> r.id, rmds |-> r.rmds, log |-> j]
                   ELSE NotFlushing
    /\ UNCHANGED <<j, mds, branchID, lastMdID, home, currentUID,
                   blockJournal, puts, faults>>

FlushRemove ==
    LET r == removeFlushedEntry(State, currentUID, flushing.id,
                                flushing.rmds.MD, FALSE)
    IN /\ flushing # NotFlushing
       /\ j' = r.st.j
       /\ mds' = r.st.mds
       /\ branchID' = r.st.branchID
       /\ lastMdID' = r.st.lastMdID
       /\ home' = r.st.home
       /\ flushing' = NotFlushing
       /\ UNCHANGED <<currentUID, blockJournal, puts, faults>>

NextFlush ==
    \/ FlushPut
    \/ ConvertToBranch
    \/ Clear
    \/ FlushGet
    \/ FlushRemove

\* The journal with a flush driver running beside the other calls.
SpecFlush == Init /\ [][NextFlush]_vars

(***************************************************************************)
(* Opening a journal directory.  makeMDJournal is applied to the journals   *)
(* a directory may hold: logs of up to MaxRev + 1 entries, each the ID of a *)
(* metadata object of that revision stored by alice on some branch, or the  *)
(* zero MdID that put can leave in the log; the content store holds the     *)
(* file of every other ID.                                                  *)
(***************************************************************************)
DiskRMDs(rev) ==
    {encryptMDPrivateData(
         [rev |-> rev, bid |-> b,
          ms |-> IF b = NullBranchID THEN Merged ELSE Unmerged,
          prev |-> ZeroMdID, data |-> d], "alice") :
       b \in BranchIDs, d \in Payloads}

DiskIDs(rev) == {ZeroMdID} \cup {MakeMdID(rmd) : rmd \in DiskRMDs(rev)}

DiskSeqs(n) ==
    {ids \in [1..n -> UNION {DiskIDs(rev) : rev \in 1..n}] :
        \A i \in 1..n : ids[i] \in DiskIDs(i)}

DiskLogs ==
    {IF ids = <<>> THEN makeMdIDJournal
     ELSE [first |-> MetadataRevisionInitial, ids |-> ids] :
       ids \in UNION {DiskSeqs(n) : n \in 0..(MaxRev + 1)}}

InitOpen ==
    /\ j \in DiskLogs
    /\ mds = [id \in LogIds \ {ZeroMdID} |-> id.h]
    /\ branchID = NullBranchID
    /\ lastMdID = ZeroMdID
    /\ home = TRUE
    /\ currentUID = "alice"
    /\ blockJournal = EmptyBlockJournal
    /\ flushing = NotFlushing
    /\ puts = 0
    /\ faults = 0

\* makeMDJournal on the directory: the instance returned, if one is.
Open ==
    LET r == makeMDJournal(State, currentUID) IN
    /\ IF r.err = "nil" THEN Becomes(r.st) ELSE Becomes(State)
    /\ UNCHANGED <<puts, faults>>

NextOpen == Open

\* A journal directory, opened.
SpecOpen == InitOpen /\ [][NextOpen]_vars

(***************************************************************************)
(* The block journal.  block_journal.go is not among the sources: the      *)
(* operations below follow the calls and the assertions of                 *)
(* block_journal_test.go.  A journal b is [j, blocks, refs]: the ordinal   *)
(* log of entries [op, contexts] on disk, the block data files on disk,    *)
(* and in memory the references.  Flushing is not modelled.                *)
(***************************************************************************)
BlockDatas == {"d1"}
BlockContexts == {"c1", "c2"}

\* crypto.MakeRandomBlockCryptKeyServerHalf: the server half a block's data
\* is put with.
MakeRandomBlockCryptKeyServerHalf(data) == [half |-> data]

\* crypto.MakePermanentBlockID: the ID is a hash of the data.
MakePermanentBlockID(data) == [hash |-> data]

BlockIDs == {MakePermanentBlockID(data) : data \in BlockDatas}

\* The maps BlockID -> []BlockContext a caller may pass, as sets of
\* [id, context]; they name one context or several.
ContextMaps == (SUBSET [id : BlockIDs, context : BlockContexts]) \ {{}}

blockJournal_length(b) == Len(b.j.entries)

\* j.end(): one past the last ordinal, 0 for an empty journal.
blockJournal_end(b) ==
    IF b.j.entries = <<>> THEN 0 ELSE b.j.first + Len(b.j.entries)

\* appendJournalEntry with an entry for each context named.
appendJournalEntry_PerContext(b, op, contexts) ==
    LET entry == [op |-> op, contexts |-> contexts]
        added == [i \in 1..Cardinality(contexts) |-> entry]
    IN [b EXCEPT !.j = IF b.j.entries = <<>>
                       THEN [first |-> 0, entries |-> added]
                       ELSE [@ EXCEPT !.entries = @ \o added]]

\* appendJournalEntry: one entry, whatever the number of contexts.
appendJournalEntry(b, op, contexts) ==
    LET entry == [op |-> op, contexts |-> contexts] IN
    [b EXCEPT !.j = IF b.j.entries = <<>>
                    THEN [first |-> 0, entries |-> <<entry>>]
                    ELSE [@ EXCEPT !.entries = Append(@, entry)]]

\* The references with those of contexts set to status.
putRefs(refs, contexts, status) ==
    {r \in refs : [id |-> r.id, context |-> r.context] \notin contexts}
        \cup {[id |-> c.id, context |-> c.context, status |-> status] :
                c \in contexts}

removeRefs(refs, contexts) ==
    {r \in refs : [id |-> r.id, context |-> r.context] \notin contexts}

\* putData of data under its permanent ID: the data and the server half
\* are written and one blockPutOp entry is appended.
putData(b, id, context, data, serverHalf) ==
    LET contexts == {[id |-> id, context |-> context]} IN
    [b |-> [appendJournalEntry(b, "blockPutOp", contexts)
              EXCEPT !.blocks = writeFile(@, id,
                         [data |-> data, serverHalf |-> serverHalf]),
                     !.refs = putRefs(@, contexts, "live")],
     err |-> "nil"]

\* addReference: succeeds whether or not the block's data is there.
addReference(b, id, context) ==
    LET contexts == {[id |-> id, context |-> context]}
    IN [b |-> [appendJournalEntry(b, "addRefOp", contexts)
                 EXCEPT !.refs = putRefs(@, contexts, "live")],
        err |-> "nil"]

\* removeReferences: the data of a block without references stays, for
\* flushing.
removeReferences(b, contexts) ==
    [b |-> [appendJournalEntry(b, "removeRefsOp", contexts)
              EXCEPT !.refs = removeRefs(@, contexts)],
     err |-> "nil"]

\* archiveReferences: also of references the journal does not know.
archiveReferences(b, contexts) ==
    [b |-> [appendJournalEntry(b, "archiveRefsOp", contexts)
              EXCEPT !.refs = putRefs(@, contexts, "archived")],
     err |-> "nil"]

\* getData and getDataWithContext: the data and the key server half.
getData(b, id) ==
    IF id \in DOMAIN b.blocks
    THEN [err |-> "nil", block |-> b.blocks[id]]
    ELSE [err |-> "blockNonExistentError", block |-> <<>>]

getDataWithContext(b, id, context) ==
    IF \E r \in b.refs : r.id = id /\ r.context = context
    THEN getData(b, id)
    ELSE [err |-> "blockNonExistentError", block |-> <<>>]

\* The references an entry makes of refs.
applyEntry(refs, entry) ==
    CASE entry.op = "blockPutOp" -> putRefs(refs, entry.contexts, "live")
      [] entry.op = "addRefOp" -> putRefs(refs, entry.contexts, "live")
      [] entry.op = "removeRefsOp" -> removeRefs(refs, entry.contexts)
      [] entry.op = "archiveRefsOp" ->
           putRefs(refs, entry.contexts, "archived")

\* readJournal: the references the entries of the log make, in order.
RECURSIVE readJournal(_, _)
readJournal(log, n) ==
    IF n = 0 THEN {}
    ELSE applyEntry(readJournal(log, n - 1), log.entries[n])

\* makeBlockJournal without the references of the log.
makeBlockJournal_NoRefs(b) == [j |-> b.j, blocks |-> b.blocks, refs |-> {}]

\* makeBlockJournal on the directory of b: the log and the block data are
\* the ones on disk, the references are read from the log.
makeBlockJournal(b) ==
    [j |-> b.j, blocks |-> b.blocks,
     refs |-> readJournal(b.j, Len(b.j.entries))]

\* checkInSync: the references in memory are those the log makes.
checkInSync(b) ==
    IF b.refs = readJournal(b.j, Len(b.j.entries))
    THEN "nil" ELSE "refs not in sync"

\* The calls on the block journal; an entry is appended only below
\* MaxOrdinal.
BlockBecomes(b) ==
    /\ blockJournal' = b
    /\ UNCHANGED <<j, mds, branchID, lastMdID, home, currentUID, flushing,
                   puts, faults>>

PutData ==
    \E data \in BlockDatas, context \in BlockContexts :
      /\ blockJournal_end(blockJournal) < MaxOrdinal
      /\ BlockBecomes(putData(blockJournal, MakePermanentBlockID(data),
                              context, data,
                              MakeRandomBlockCryptKeyServerHalf(data)).b)

AddReference ==
    \E id \in BlockIDs, context \in BlockContexts :
      /\ blockJournal_end(blockJournal) < MaxOrdinal
      /\ BlockBecomes(addReference(blockJournal, id, context).b)

RemoveReferences ==
    \E contexts \in ContextMaps :
      /\ blockJournal_end(blockJournal) < MaxOrdinal
      /\ BlockBecomes(removeReferences(blockJournal, contexts).b)

ArchiveReferences ==
    \E contexts \in ContextMaps :
      /\ blockJournal_end(blockJournal) < MaxOrdinal
      /\ BlockBecomes(archiveReferences(blockJournal, contexts).b)

\* Shutdown and restart.
RestartBlockJournal ==
    LET restarted == makeBlockJournal(blockJournal) IN
    BlockBecomes(restarted)

NextBlock ==
    \/ PutData
    \/ AddReference
    \/ RemoveReferences
    \/ ArchiveReferences
    \/ RestartBlockJournal

\* The block journal of a new directory and the calls on it.
SpecBlock == Init /\ [][NextBlock]_vars

(***************************************************************************)
(* Claims.  A claim about what a call does is stated for every call that   *)
(* can be made in a reachable state: the formula applies the method's      *)
(* operator to the state, as the actions do.                               *)
(***************************************************************************)
\* C1: for every two consecutive log entries (R, id1), (R+1, id2), the
\* metadata stored under id2 has prevRoot = id1.
C1_PrevRootChain ==
    \A i \in 1..(Len(j.ids) - 1) :
        /\ j.ids[i + 1] \in DOMAIN mds
        /\ mds[j.ids[i + 1]].prev = j.ids[i]

\* C2: for every log entry (R, id), the content store holds under id a
\* metadata object whose MdID is id and whose revision is R.
C2_EntriesStored ==
    \A r \in mdIDJournal_revisions(j) :
        LET id == mdIDJournal_at(j, r) IN
        /\ id \in DOMAIN mds
        /\ MakeMdID(mds[id]) = id
        /\ mds[id].rev = r

\* C3: every metadata object the log refers to has BID = branchID, after
\* every call, the calls that return an error included.
C3_EntriesOnBranch ==
    \A id \in LogIds \cap DOMAIN mds : mds[id].bid = branchID

\* C4: lastMdID is non-zero only while the log is empty; it becomes non-zero
\* only in a step that removes the only entry of a non-empty log, and then
\* it is the MdID of the removed entry.
C4_LastMdID ==
    /\ [](lastMdID # ZeroMdID => j.ids = <<>>)
    /\ [][(lastMdID' # lastMdID /\ lastMdID' # ZeroMdID)
            => /\ j.ids # <<>>
               /\ j'.ids = <<>>
               /\ lastMdID' = Head(j.ids)]_vars

\* C4 witness: the log has been flushed empty and lastMdID is set.
C4_Witness == lastMdID # ZeroMdID /\ j.ids = <<>> /\ puts > 0

\* C5: when put(rmd) returns id without error: if the log was empty or
\* rmd.revision is above the latest revision, the latest entry becomes
\* (rmd.revision, id) and the log is one entry longer; if rmd.revision is the
\* latest revision, the latest entry keeps its revision, its MdID becomes
\* id, and the length is unchanged.
C5_PutAppendsOrReplaces ==
    \A rmd \in PutInputs, fail \in PutFailures :
        LET r == put(State, currentUID, rmd, fail)
            n == Len(j.ids)
            latestRev == mdIDJournal_readLatestRevision(j)
        IN r.err = "nil" =>
             /\ (n = 0 \/ rmd.rev > latestRev) =>
                  /\ Len(r.st.j.ids) = n + 1
                  /\ mdIDJournal_readLatestRevision(r.st.j) = rmd.rev
                  /\ mdIDJournal_getLatest(r.st.j) = r.id
             /\ (n > 0 /\ rmd.rev = latestRev) =>
                  /\ Len(r.st.j.ids) = n
                  /\ mdIDJournal_readLatestRevision(r.st.j) = latestRev
                  /\ mdIDJournal_getLatest(r.st.j) = r.id

\* C5 witness: on a non-empty log, one put appends and another replaces the
\* head with another MdID, both without error.
C5_Witness ==
    /\ j.ids # <<>>
    /\ \E rmd \in PutInputs :
         /\ put(State, currentUID, rmd, "none").err = "nil"
         /\ rmd.rev > mdIDJournal_readLatestRevision(j)
    /\ \E rmd \in PutInputs :
         /\ put(State, currentUID, rmd, "none").err = "nil"
         /\ rmd.rev = mdIDJournal_readLatestRevision(j)
         /\ put(State, currentUID, rmd, "none").st.j # j

\* C6: after put(R=1) returned id1 and put(R=2, prevRoot=id1) succeeded on
\* the merged branch, a retry of the R=2 put (with the same or other data)
\* succeeds, the log length is still 2, and the latest entry's MdID is the
\* id the retry returned, the MdID of the retried metadata (for a retry that
\* encodes to the stored head, the MdID of the stored head).
C6_RetryKeepsHead ==
    ( /\ branchID = NullBranchID
      /\ j.first = 1
      /\ Len(j.ids) = 2
      /\ j.ids[1] \in DOMAIN mds
      /\ j.ids[2] \in DOMAIN mds
      /\ mds[j.ids[2]].prev = j.ids[1] ) =>
      \A d \in Payloads :
          LET rmd == [rev |-> 2, bid |-> NullBranchID, ms |-> Merged,
                      prev |-> j.ids[1], data |-> d]
              r == put(State, currentUID, rmd, "none")
          IN /\ r.err = "nil"
             /\ Len(r.st.j.ids) = 2
             /\ mdIDJournal_getLatest(r.st.j) = r.id
             /\ r.id = MakeMdID(encryptMDPrivateData(rmd, currentUID))

\* C7: a put of a merged RMD (status Merged, null BID) while branchID is not
\* null fails with MDJournalConflictError and changes nothing, whether the
\* log is empty or not.
C7_MergedOnBranchConflicts ==
    branchID # NullBranchID =>
      \A rmd \in PutInputs, fail \in PutFailures :
          (rmd.ms = Merged /\ rmd.bid = NullBranchID) =>
            /\ put(State, currentUID, rmd, fail).err = "MDJournalConflictError"
            /\ put(State, currentUID, rmd, fail).st = State

\* C7 witness: a branched journal whose log has been flushed empty, where a
\* merged put fails with the conflict error.
C7_Witness ==
    /\ branchID # NullBranchID
    /\ j.ids = <<>>
    /\ lastMdID # ZeroMdID
    /\ \E rmd \in PutInputs :
         /\ rmd.ms = Merged
         /\ put(State, currentUID, rmd, "none").err = "MDJournalConflictError"

\* C8: a successful put in case Unmerged-1 (unmerged, null BID, branchID
\* not null) stores an entry whose BID is the journal's branchID and whose
\* prevRoot is the MdID of the head before the call if the log was
\* non-empty, and lastMdID if it was empty.
C8_Unmerged1Chains ==
    \A rmd \in PutInputs, fail \in PutFailures :
        LET r == put(State, currentUID, rmd, fail)
            id == mdIDJournal_getLatest(r.st.j)
        IN ( /\ rmd.ms = Unmerged
             /\ rmd.bid = NullBranchID
             /\ branchID # NullBranchID
             /\ r.err = "nil" ) =>
             /\ id \in DOMAIN r.st.mds
             /\ r.st.mds[id].bid = branchID
             /\ r.st.mds[id].prev =
                  IF j.ids # <<>> THEN mdIDJournal_getLatest(j) ELSE lastMdID

\* C9: for a put in case Unmerged-3 (unmerged, BID not null, log empty,
\* branchID null): if it succeeds, branchID is rmd.BID and rmd is the only
\* entry; if it fails at any later step, branchID is null again and the log
\* is still empty.
C9_Unmerged3AdoptsOrReverts ==
    \A rmd \in PutInputs, fail \in PutFailures :
        LET r == put(State, currentUID, rmd, fail)
            id == MakeMdID(encryptMDPrivateData(rmd, currentUID))
        IN ( /\ rmd.ms = Unmerged
             /\ rmd.bid # NullBranchID
             /\ j.ids = <<>>
             /\ branchID = NullBranchID ) =>
             IF r.err = "nil"
             THEN /\ r.st.branchID = rmd.bid
                  /\ r.st.j = [first |-> rmd.rev, ids |-> <<id>>]
                  /\ id \in DOMAIN r.st.mds
             ELSE /\ r.st.branchID = NullBranchID
                  /\ r.st.j.ids = <<>>

\* C10: a put of an unmerged RMD with null BID while branchID is null fails;
\* a put whose merge status and BID disagree, or whose BID differs from
\* branchID, fails, where the BID is the one normalized by case Unmerged-1
\* (null BID on a branched journal becomes branchID) and branchID is the one
\* adopted by case Unmerged-3 (unmerged, BID not null, log empty, branchID
\* null); none of these failures adds or changes a log entry.
C10_RejectedPutsFail ==
    \A rmd \in PutInputs, fail \in PutFailures :
        LET r == put(State, currentUID, rmd, fail)
            unmerged1 == /\ rmd.ms = Unmerged
                         /\ rmd.bid = NullBranchID
                         /\ branchID # NullBranchID
            unmerged3 == /\ rmd.ms = Unmerged
                         /\ rmd.bid # NullBranchID
                         /\ j.ids = <<>>
                         /\ branchID = NullBranchID
            bid == IF unmerged1 THEN branchID ELSE rmd.bid
            branch == IF unmerged3 THEN rmd.bid ELSE branchID
        IN ( \/ /\ rmd.ms = Unmerged
                /\ rmd.bid = NullBranchID
                /\ branchID = NullBranchID
             \/ (rmd.ms = Merged) # (bid = NullBranchID)
             \/ bid # branch ) =>
             /\ r.err # "nil"
             /\ r.st.j = j

\* C11: the log holds exactly the revisions earliest..latest, all valid; a
\* put onto a non-empty log succeeds only when rmd.revision is the latest
\* revision (replace-head: the revisions stay as they are) or the latest
\* revision + 1 (append: that revision is added).
C11_RevisionsContiguous ==
    /\ j.ids # <<>> => j.first >= MetadataRevisionInitial
    /\ mdIDJournal_revisions(j) =
         {r \in 0..(MaxRev + 1) :
            /\ j.ids # <<>>
            /\ mdIDJournal_readEarliestRevision(j) <= r
            /\ r <= mdIDJournal_readLatestRevision(j)}
    /\ \A rmd \in PutInputs, fail \in PutFailures :
         LET r == put(State, currentUID, rmd, fail)
             latestRev == mdIDJournal_readLatestRevision(j)
             revs == mdIDJournal_revisions(j)
         IN (j.ids # <<>> /\ r.err = "nil") =>
              \/ /\ rmd.rev = latestRev
                 /\ mdIDJournal_revisions(r.st.j) = revs
              \/ /\ rmd.rev = latestRev + 1
                 /\ mdIDJournal_revisions(r.st.j) = revs \cup {rmd.rev}

\* C11 witness: a log of two revisions (the second one appended by a put)
\* on which a put of the latest revision succeeds and replaces the head.
C11_Witness ==
    /\ Len(j.ids) = 2
    /\ \E rmd \in PutInputs :
         /\ rmd.rev = mdIDJournal_readLatestRevision(j)
         /\ put(State, currentUID, rmd, "none").err = "nil"
         /\ put(State, currentUID, rmd, "none").st.j # j

\* C12: calling putMD twice with an identical RMD is idempotent: when the
\* first call stores the RMD and returns its MdID, the second call succeeds,
\* leaves the content store as it is and returns the same MdID.
C12_PutMDIdempotent ==
    \A rmd \in PutInputs :
        LET brmd == encryptMDPrivateData(rmd, currentUID)
            first == putMD(State, currentUID, brmd, FALSE)
            second == putMD([State EXCEPT !.mds = first.mds],
                            currentUID, brmd, FALSE)
        IN (brmd.bid = branchID /\ first.err = "nil") =>
             /\ second.err = "nil"
             /\ second.mds = first.mds
             /\ second.id = first.id

\* C13: getNextEntryToFlush(end) returns the MdID and the signed RMD of the
\* earliest log entry when the log is non-empty and the earliest revision
\* is below end, returns the null sentinel (zero MdID, nil RMD, no error)
\* when the log is empty or the earliest revision is end or above, and never
\* changes the log, the content store, branchID or lastMdID.
C13_NextEntryToFlush ==
    \A end \in FlushEnds :
        LET r == getNextEntryToFlush(State, currentUID, end, FALSE)
            id == mdIDJournal_getEarliest(j)
        IN /\ r.st = State
           /\ getNextEntryToFlush(State, currentUID, end, TRUE).st = State
           /\ IF j.ids # <<>> /\ mdIDJournal_readEarliestRevision(j) < end
              THEN /\ r.err = "nil"
                   /\ r.id = id
                   /\ id \in DOMAIN mds
                   /\ r.rmds = signMD(mds[id])
              ELSE /\ r.err = "nil"
                   /\ r.id = ZeroMdID
                   /\ r.rmds = NilRMDS

\* C14: removeFlushedEntry(mdID, rmds) removes an entry only if the log is
\* non-empty, mdID is the earliest entry's MdID and rmds' RMD is codec-equal
\* to the stored earliest RMD; when the log is empty or either check fails
\* it returns an error and leaves the log, the content store, branchID and
\* lastMdID unchanged.
C14_RemoveFlushedChecks ==
    \A mdID \in LogIds \cup {ZeroMdID}, rmdsMD \in StoredRMDs \cup {BogusRMD} :
        LET r == removeFlushedEntry(State, currentUID, mdID, rmdsMD, FALSE)
            id == mdIDJournal_getEarliest(j)
            matching == /\ j.ids # <<>>
                        /\ mdID = id
                        /\ id \in DOMAIN mds
                        /\ CodecEqual(mds[id], rmdsMD)
        IN /\ r.st # State => matching
           /\ ~matching => (r.err # "nil" /\ r.st = State)

\* C14 witness: on a log of two entries, a call with the MdID of the latest
\* entry and a call with the earliest MdID but another RMD both fail, and
\* the call with the earliest entry's MdID and RMD removes it.
C14_Witness ==
    /\ Len(j.ids) = 2
    /\ j.ids[1] # j.ids[2]
    /\ j.ids[1] \in DOMAIN mds
    /\ j.ids[2] \in DOMAIN mds
    /\ removeFlushedEntry(State, currentUID, j.ids[2], mds[j.ids[2]], FALSE).err
         = "Expected mdID"
    /\ removeFlushedEntry(State, currentUID, j.ids[1], mds[j.ids[2]], FALSE).err
         = "Given RootMetadataSigned doesn't match earliest"
    /\ removeFlushedEntry(State, currentUID, j.ids[1], mds[j.ids[1]],
                          FALSE).st.j
         = [first |-> j.first + 1, ids |-> <<j.ids[2]>>]

\* C15: on a non-empty log, when getNextEntryToFlush(end) returns an entry
\* (id, rmds), removeFlushedEntry(id, rmds) succeeds, shortens the log by
\* exactly 1, removes exactly the earliest entry (when entries remain the
\* earliest revision is the old one + 1 and the other entries are as they
\* were) and leaves branchID unchanged.
C15_FlushRemovesEarliest ==
    \A end \in FlushEnds :
        LET next == getNextEntryToFlush(State, currentUID, end, FALSE)
            r == removeFlushedEntry(State, currentUID, next.id,
                                    next.rmds.MD, FALSE)
        IN (j.ids # <<>> /\ next.err = "nil" /\ next.rmds # NilRMDS) =>
             /\ r.err = "nil"
             /\ Len(r.st.j.ids) = Len(j.ids) - 1
             /\ r.st.j.ids = Tail(j.ids)
             /\ Len(j.ids) > 1 =>
                  mdIDJournal_readEarliestRevision(r.st.j)
                    = mdIDJournal_readEarliestRevision(j) + 1
             /\ r.st.branchID = branchID

\* C15 witness: a log of two entries whose earliest entry
\* getNextEntryToFlush returns.
C15_Witness ==
    /\ Len(j.ids) = 2
    /\ \E end \in FlushEnds :
         /\ getNextEntryToFlush(State, currentUID, end, FALSE).id = j.ids[1]
         /\ j.ids[1] # ZeroMdID

\* C16: when removeFlushedEntry removes the last remaining entry, lastMdID
\* becomes that entry's MdID, and it is left as it is when entries remain;
\* a following successful Unmerged-1 put on the emptied branched journal
\* stores an RMD whose prevRoot is that last flushed MdID, and resets
\* lastMdID to zero.
C16_LastMdIDChains ==
    /\ \A mdID \in LogIds \cup {ZeroMdID},
          rmdsMD \in StoredRMDs \cup {BogusRMD} :
         LET r == removeFlushedEntry(State, currentUID, mdID, rmdsMD, FALSE) IN
         r.st.j # j =>
           r.st.lastMdID = IF r.st.j.ids = <<>> THEN mdID ELSE lastMdID
    /\ (j.ids = <<>> /\ branchID # NullBranchID /\ lastMdID # ZeroMdID) =>
         \A rmd \in PutInputs :
             LET r == put(State, currentUID, rmd, "none")
                 id == mdIDJournal_getLatest(r.st.j)
             IN ( /\ rmd.ms = Unmerged
                  /\ rmd.bid = NullBranchID
                  /\ r.err = "nil" ) =>
                  /\ id \in DOMAIN r.st.mds
                  /\ r.st.mds[id].prev = lastMdID
                  /\ r.st.lastMdID = ZeroMdID

\* C17: convertToBranch called while branchID is not null (in particular
\* after a successful conversion) fails and leaves branchID, the log and
\* the content store unchanged.
C17_ConvertNotReentrant ==
    branchID # NullBranchID =>
      \A bid \in BranchIDs \ {NullBranchID} :
        LET r == convertToBranch(State, currentUID, bid, NoConvertFailure)
        IN r.err # "nil" /\ r.st = State

\* C17 witness: a non-empty journal on branch b2, an ID no caller gives an
\* RMD: the branch was made by a conversion.
C17_Witness ==
    /\ branchID = "b2"
    /\ j.ids # <<>>
    /\ convertToBranch(State, currentUID, "b1", NoConvertFailure).err
         = "convertToBranch called with BID"

\* C18: after a successful convertToBranch on a non-empty trunk journal,
\* branchID is the returned new BID, which is not null; the log has the
\* length and the revisions it had; every entry's MdID differs from its old
\* MdID; every entry's RMD has the new BID, status Unmerged and, but for the
\* first entry, prevRoot equal to the new MdID of the entry before it.
C18_ConvertRewrites ==
    (branchID = NullBranchID /\ j.ids # <<>>) =>
      \A bid \in FreshBranchIDs :
          LET r == convertToBranch(State, currentUID, bid, NoConvertFailure)
              new == r.st.j.ids
          IN r.err = "nil" =>
               /\ r.bid # NullBranchID
               /\ r.st.branchID = r.bid
               /\ Len(new) = Len(j.ids)
               /\ mdIDJournal_revisions(r.st.j) = mdIDJournal_revisions(j)
               /\ \A i \in 1..Len(new) :
                    /\ new[i] # j.ids[i]
                    /\ new[i] \in DOMAIN r.st.mds
                    /\ r.st.mds[new[i]].bid = r.bid
                    /\ r.st.mds[new[i]].ms = Unmerged
                    /\ i > 1 => r.st.mds[new[i]].prev = new[i - 1]

\* C18 witness: a trunk journal of two entries, the second not chained to
\* the first, whose conversion succeeds.
C18_Witness ==
    /\ branchID = NullBranchID
    /\ Len(j.ids) = 2
    /\ j.ids[2] \in DOMAIN mds
    /\ mds[j.ids[2]].prev # j.ids[1]
    /\ \E bid \in FreshBranchIDs :
         convertToBranch(State, currentUID, bid, NoConvertFailure).err = "nil"

\* C19: a convertToBranch that returns an error, whichever step failed
\* (reading an entry, signing, putMD, the scratch append, either directory
\* move), leaves the journal as before the call: branchID is null, the log
\* at dir/md_journal holds the original entries, the original content files
\* exist, and the journal reopened from disk has the same length and the
\* same earliest and latest entries.
C19_ConvertFailureRestores ==
    (branchID = NullBranchID /\ home) =>
      \A bid \in FreshBranchIDs, fail \in ConvertFailures :
        LET r == convertToBranch(State, currentUID, bid, fail)
            reopened == makeMDJournal(r.st, currentUID).st.j
        IN r.err # "nil" =>
             /\ r.st.branchID = NullBranchID
             /\ r.st.j = j /\ reopened = j
             /\ \A id \in DOMAIN mds :
                  id \in DOMAIN r.st.mds /\ r.st.mds[id] = mds[id]
             /\ mdIDJournal_length(reopened) = mdIDJournal_length(j)
             /\ mdIDJournal_getEarliest(reopened) = mdIDJournal_getEarliest(j)
             /\ mdIDJournal_getLatest(reopened) = mdIDJournal_getLatest(j)

\* C20: when convertToBranch returns, the scratch directory it made no
\* longer exists; after a successful conversion the content files of the
\* old MdIDs are removed and those of the new MdIDs exist; after a failed
\* one the content store is what it was before the call: every file the
\* call made is removed and the old files remain.
C20_ConvertCleansUp ==
    branchID = NullBranchID =>
      \A bid \in FreshBranchIDs, fail \in ConvertFailures :
        LET r == convertToBranch(State, currentUID, bid, fail) IN
        /\ "temp" \notin r.dirs
        /\ (r.err = "nil" /\ mdIDJournal_length(j) > 0) =>
             /\ r.dirs = {}
             /\ \A i \in 1..Len(j.ids) : j.ids[i] \notin DOMAIN r.st.mds
             /\ \A i \in 1..Len(r.st.j.ids) :
                  r.st.j.ids[i] \in DOMAIN r.st.mds
        /\ r.err # "nil" => r.st.mds = mds

\* C20 witness: a trunk journal of two entries that one conversion, failing
\* at the append of the second entry to the scratch log after the content
\* file of both rewritten entries was made, leaves with its content store,
\* and that another conversion rewrites.
C20_Witness ==
    /\ branchID = NullBranchID
    /\ mdIDJournal_length(j) = 2
    /\ \E bid \in FreshBranchIDs :
         /\ convertToBranch(State, currentUID, bid,
                            [step |-> "append", at |-> 1]).err = "io"
         /\ convertToBranch(State, currentUID, bid,
                            NoConvertFailure).err = "nil"

\* C21: on a branched non-empty journal, whatever puts (replace-head puts
\* included) came before, clear(branchID) leaves the log empty, branchID
\* null, lastMdID unchanged, and no content file in the store for any
\* revision that was in the log.
C21_ClearBranch ==
    (branchID # NullBranchID /\ mdIDJournal_length(j) > 0) =>
      LET r == clear(State, currentUID, branchID, "none") IN
      /\ r.err = "nil"
      /\ mdIDJournal_length(r.st.j) = 0
      /\ r.st.branchID = NullBranchID
      /\ r.st.lastMdID = lastMdID
      /\ \A id \in DOMAIN r.st.mds :
           r.st.mds[id].rev \notin mdIDJournal_revisions(j)

\* C22: clear(bid) with a non-null bid other than the journal's branch
\* returns no error and leaves the log, the content store, branchID and
\* lastMdID unchanged, whatever step of it is set to fail.
C22_ClearOtherBranch ==
    \A bid \in BranchIDs \ {NullBranchID, branchID} :
      \A fail \in ClearFailures :
        LET r == clear(State, currentUID, bid, fail) IN
        r.err = "nil" /\ r.st = State

\* C23: from the Empty-Branched state (empty log, branchID B not null,
\* reached by flushing every entry of a branched journal, so that lastMdID
\* is the ID of the last entry flushed), clear(B) leaves branchID null.
C23_ClearEmptyBranched ==
    (/\ branchID # NullBranchID
     /\ mdIDJournal_length(j) = 0
     /\ lastMdID # ZeroMdID) =>
      LET r == clear(State, currentUID, branchID, "none") IN
      r.err = "nil" /\ r.st.branchID = NullBranchID

\* C24: clear(NullBranchID) fails with the invalid-argument error "Cannot
\* clear master branch" and leaves the log, the content store, branchID and
\* lastMdID unchanged, in every state and whatever step is set to fail.
C24_ClearMasterFails ==
    \A fail \in ClearFailures :
      LET r == clear(State, currentUID, NullBranchID, fail) IN
      r.err = "Cannot clear master branch" /\ r.st = State

\* C24 witness: a non-empty journal on a branch, which a clear of that
\* branch would change.
C24_Witness ==
    /\ branchID # NullBranchID
    /\ mdIDJournal_length(j) > 0
    /\ clear(State, currentUID, branchID, "none").st # State
    /\ clear(State, currentUID, NullBranchID, "none").err # "nil"

\* C25: after any sequence of put, flush, convertToBranch and clear,
\* opening the journal from disk again succeeds and yields the branchID,
\* the length and the earliest and latest revisions the instance had, also
\* when the journal is empty but on a branch.
C25_RestartConsistent ==
    LET r == makeMDJournal(State, currentUID) IN
    /\ r.err = "nil"
    /\ r.st.branchID = branchID
    /\ mdIDJournal_length(r.st.j) = mdIDJournal_length(j)
    /\ mdIDJournal_readEarliestRevision(r.st.j)
         = mdIDJournal_readEarliestRevision(j)
    /\ mdIDJournal_readLatestRevision(r.st.j)
         = mdIDJournal_readLatestRevision(j)

\* C26: opening a journal fails when exactly one of the earliest and the
\* latest entry is present and when the earliest and the latest RMD are on
\* different branches; otherwise it succeeds, with the branch of the two
\* endpoints as branchID, or the null branch when there is no endpoint.
C26_OpenChecksEndpoints ==
    LET r == makeMDJournal(State, currentUID)
        earliestID == mdIDJournal_getEarliest(j)
        latestID == mdIDJournal_getLatest(j)
    IN IF (earliestID = ZeroMdID) # (latestID = ZeroMdID)
       THEN r.err # "nil"
       ELSE IF earliestID = ZeroMdID
       THEN r.err = "nil" /\ r.st.branchID = NullBranchID
       ELSE IF mds[earliestID].bid # mds[latestID].bid
       THEN r.err # "nil"
       ELSE r.err = "nil" /\ r.st.branchID = mds[earliestID].bid

\* C26 witness: a directory whose log starts on the trunk and ends on
\* branch b1, which does not open.
C26_Witness ==
    /\ mdIDJournal_length(j) = 2
    /\ ZeroMdID \notin LogIds
    /\ mds[mdIDJournal_getEarliest(j)].bid = NullBranchID
    /\ mds[mdIDJournal_getLatest(j)].bid = "b1"
    /\ makeMDJournal(State, currentUID).err = "earliest.BID != latest.BID"

\* C27: if the process stops at any point of a convertToBranch of a
\* non-empty trunk journal, opening the journal from disk finds at its
\* normal location either the whole log of before the conversion, on the
\* trunk, or the whole rewritten log, on the new branch; never an empty or
\* missing log.
C27_ConvertCrashAtomic ==
    (branchID = NullBranchID /\ home /\ mdIDJournal_length(j) > 0) =>
      \A bid \in FreshBranchIDs :
        LET whole == convertToBranch(State, currentUID, bid, NoConvertFailure)
        IN whole.err = "nil" =>
             \A crash \in ConvertCrashes :
               LET disk == convertToBranchCrash(State, currentUID, bid, crash)
                   r == makeMDJournal(disk, currentUID)
               IN /\ r.err = "nil"
                  /\ \/ r.st.j = j /\ r.st.branchID = NullBranchID
                     \/ r.st.j = whole.st.j /\ r.st.branchID = bid

\* C28: a put that returns an error, whichever check or step failed, leaves
\* the entries of the ordinal log, branchID and lastMdID as they were before
\* the call.
C28_FailedPutKeepsState ==
    \A rmd \in PutInputs, uid \in UIDs, fail \in PutFailures :
      LET r == put(State, uid, rmd, fail) IN
      r.err # "nil" =>
        /\ r.st.j = j
        /\ r.st.branchID = branchID
        /\ r.st.lastMdID = lastMdID

\* C28 witness: an empty trunk journal with a last flushed root, in which
\* an unmerged put that adopts branch b1 fails when the log is written,
\* after its content file was stored.
C28_Witness ==
    /\ mdIDJournal_length(j) = 0
    /\ branchID = NullBranchID
    /\ lastMdID # ZeroMdID
    /\ \E rmd \in PutInputs :
         LET r == put(State, currentUID, rmd, "journal") IN
         /\ putCase(State, EmptyIBRMD, rmd) = "Unmerged-3"
         /\ r.err = "io"
         /\ r.st.mds # mds

\* C29: in the block journal every successful putData and every successful
\* addReference makes the journal one entry longer, a removeReferences or
\* archiveReferences call adds one entry however many block contexts it
\* names, and after a shutdown and restart the length and the block data
\* read with each context are the same.
C29_BlockJournalLength ==
    LET b == blockJournal
        restarted == makeBlockJournal(b)
    IN /\ \A data \in BlockDatas, context \in BlockContexts :
            LET r == putData(b, MakePermanentBlockID(data), context, data,
                             MakeRandomBlockCryptKeyServerHalf(data))
            IN r.err = "nil" =>
                 blockJournal_length(r.b) = blockJournal_length(b) + 1
       /\ \A id \in BlockIDs, context \in BlockContexts :
            LET r == addReference(b, id, context) IN
            r.err = "nil" =>
              blockJournal_length(r.b) = blockJournal_length(b) + 1
       /\ \A contexts \in ContextMaps :
            /\ blockJournal_length(removeReferences(b, contexts).b)
                 = blockJournal_length(b) + 1
            /\ blockJournal_length(archiveReferences(b, contexts).b)
                 = blockJournal_length(b) + 1
       /\ blockJournal_length(restarted) = blockJournal_length(b)
       /\ \A id \in BlockIDs :
            /\ getData(restarted, id) = getData(b, id)
            /\ \A context \in BlockContexts :
                 getDataWithContext(restarted, id, context)
                   = getDataWithContext(b, id, context)

\* C29 witness: a journal of two entries, a put and an added reference,
\* with the block's data readable under both contexts.
C29_Witness ==
    /\ blockJournal_length(blockJournal) = 2
    /\ blockJournal.j.entries[1].op = "blockPutOp"
    /\ blockJournal.j.entries[2].op = "addRefOp"
    /\ \A id \in BlockIDs, context \in BlockContexts :
         getDataWithContext(blockJournal, id, context).err = "nil"

\* C31: the removal of the content file in removeFlushedEntry is
\* best-effort: whenever removeFlushedEntry has removed the earliest entry
\* of the log it reports success, also when the content file cannot be
\* removed or is absent.
C31_RemoveBestEffort ==
    \A mdID \in LogIds, rmdsMD \in StoredRMDs, removeFail \in BOOLEAN :
        LET r == removeFlushedEntry(State, currentUID, mdID, rmdsMD,
                                    removeFail)
        IN r.st.j # j => r.err = "nil"

\* C32: when emptying the ordinal log fails during clear(bid) on a
\* non-empty journal whose head is on branch bid, clear returns an error:
\* it never reports success while the log still holds the entries.
C32_ClearTruncateFailure ==
    \A bid \in BranchIDs \ {NullBranchID} :
        LET head == getHead(State, currentUID)
            r == clear(State, currentUID, bid, "journal")
        IN (/\ head.err = "nil"
            /\ head.ibrmd # EmptyIBRMD
            /\ head.ibrmd.rmd.bid = bid) =>
             /\ r.err # "nil"
             /\ r.err = "nil" => r.st.j.ids = <<>>

\* C33: getRange(start, stop) returns, in increasing revision order,
\* exactly the entries whose revisions lie in
\* [max(earliest, start), min(latest, stop)]; the i-th returned metadata
\* has revision realStart + i, and getRange never panics on a revision
\* mismatch.
C33_GetRangeReturnsEntries ==
    \A start \in FlushEnds, stop \in FlushEnds :
        LET r == getRange(State, currentUID, start, stop)
            earliest == mdIDJournal_readEarliestRevision(j)
            latest == mdIDJournal_readLatestRevision(j)
            lo == IF start > earliest THEN start ELSE earliest
            hi == IF stop < latest THEN stop ELSE latest
            revs == {rev \in mdIDJournal_revisions(j) :
                        lo <= rev /\ rev <= hi}
        IN /\ r.err = "nil"
           /\ Len(r.rmds) = Cardinality(revs)
           /\ \A i \in 1..Len(r.rmds) :
                /\ r.rmds[i].rmd.rev = lo + (i - 1)
                /\ r.rmds[i].mdID = mdIDJournal_at(j, lo + (i - 1))
                /\ r.rmds[i].rmd = mds[r.rmds[i].mdID]

\* C34: when the log is non-empty, a put by a user who is neither a writer
\* nor a valid rekeyer fails with MDServerErrorUnauthorized, and getHead and
\* getRange by a user who is not a reader fail with
\* MDServerErrorUnauthorized; when the log is empty no such check is
\* applied; none of these failures changes the state of the journal.
C34_Unauthorized ==
    LET uid == currentUID
        head == getLatest(State, uid, TRUE).ibrmd
    IN /\ \A rmd \in PutInputs :
            LET r == put(State, uid, rmd, "none") IN
            /\ (j.ids # <<>> /\ ~isWriterOrValidRekey(uid, head, rmd)) =>
                 r.err = "MDServerErrorUnauthorized" /\ r.st = State
            /\ j.ids = <<>> => r.err # "MDServerErrorUnauthorized"
       /\ \A start \in FlushEnds, stop \in FlushEnds :
            LET h == getHead(State, uid)
                r == getRange(State, uid, start, stop)
            IN /\ (j.ids # <<>> /\ ~isReader(uid, head)) =>
                    /\ h.err = "MDServerErrorUnauthorized"
                    /\ r.err = "MDServerErrorUnauthorized"
               /\ j.ids = <<>> =>
                    /\ h.err # "MDServerErrorUnauthorized"
                    /\ r.err # "MDServerErrorUnauthorized"

\* C34 (amended): when the log is non-empty, a put by a user who is neither
\* a writer nor a valid rekeyer fails and leaves the journal unchanged; it
\* fails with MDServerErrorUnauthorized when the metadata passes the checks
\* put makes before the permission check (its merge status and branch ID
\* fit the branch of the journal) and with the error of the first of those
\* checks otherwise.  getHead and getRange by a user who is not a reader
\* fail with MDServerErrorUnauthorized.  When the log is empty no
\* permission check is applied.
C34_UnauthorizedAfterChecks ==
    LET uid == currentUID
        head == getLatest(State, uid, TRUE).ibrmd
    IN /\ \A rmd \in PutInputs :
            LET r == put(State, uid, rmd, "none")
                fits ==
                    \/ rmd.ms = Merged /\ rmd.bid = NullBranchID
                         /\ branchID = NullBranchID
                    \/ rmd.ms = Unmerged /\ branchID # NullBranchID
                         /\ rmd.bid \in {NullBranchID, branchID}
            IN /\ (j.ids # <<>> /\ ~isWriterOrValidRekey(uid, head, rmd)) =>
                    /\ r.st = State
                    /\ r.err \in {"MDServerErrorUnauthorized",
                                  "Unmerged put with null branch IDs",
                                  "mStatus doesn't match bid",
                                  "MDJournalConflictError",
                                  "Branch ID mismatch"}
                    /\ fits <=> r.err = "MDServerErrorUnauthorized"
               /\ j.ids = <<>> => r.err # "MDServerErrorUnauthorized"
       /\ \A start \in FlushEnds, stop \in FlushEnds :
            LET h == getHead(State, uid)
                r == getRange(State, uid, start, stop)
            IN /\ (j.ids # <<>> /\ ~isReader(uid, head)) =>
                    /\ h.err = "MDServerErrorUnauthorized"
                    /\ r.err = "MDServerErrorUnauthorized"
               /\ j.ids = <<>> =>
                    /\ h.err # "MDServerErrorUnauthorized"
                    /\ r.err # "MDServerErrorUnauthorized"

\* C34 witness: the journal of a user with no role in the folder holds an
\* entry; a put that fits the branch is refused as unauthorized, another
\* is refused by an earlier check, and getHead is refused.
C34_Witness ==
    /\ currentUID = "carol"
    /\ j.ids # <<>>
    /\ \E rmd \in PutInputs :
         put(State, currentUID, rmd, "none").err = "MDServerErrorUnauthorized"
    /\ \E rmd \in PutInputs :
         put(State, currentUID, rmd, "none").err = "MDJournalConflictError"
    /\ getHead(State, currentUID).err = "MDServerErrorUnauthorized"

\* C35: if the process stops at any point of a put on a journal that
\* satisfies invariants 1-5, reopening the journal succeeds and yields a
\* log that satisfies invariants 1-5 and either holds the new entry as its
\* latest or is the log before the put; the only residue is a content file
\* the log does not refer to.
C35_PutCrashConsistent ==
    LET Inv(st) ==
            /\ \A r \in mdIDJournal_revisions(st.j) :
                 LET id == mdIDJournal_at(st.j, r) IN
                 /\ id \in DOMAIN st.mds
                 /\ st.mds[id] # PartialFile
                 /\ MakeMdID(st.mds[id]) = id
                 /\ st.mds[id].rev = r
                 /\ st.mds[id].bid = st.branchID
                 /\ IsLastModifiedBy(st.mds[id], currentUID)
            /\ \A i \in 1..(Len(st.j.ids) - 1) :
                 st.mds[st.j.ids[i + 1]].prev = st.j.ids[i]
    IN \A rmd \in PutInputs, crash \in PutCrashes :
         LET disk == putCrash(State, currentUID, rmd, crash)
             r == makeMDJournal(disk, currentUID)
             latestID == mdIDJournal_getLatest(r.st.j)
         IN Inv(State) =>
              /\ r.err = "nil"
              /\ Inv(r.st)
              /\ \/ r.st.j = j
                 \/ /\ r.st.j = put(State, currentUID, rmd, "none").st.j
                    /\ mdIDJournal_readLatestRevision(r.st.j) = rmd.rev
                    /\ r.st.mds[latestID].data = rmd.data
                    /\ r.st.mds[latestID].ms = rmd.ms
              /\ \A id \in DOMAIN mds :
                   id \in DOMAIN r.st.mds /\ r.st.mds[id] = mds[id]
              /\ Cardinality(DOMAIN r.st.mds \ DOMAIN mds) <= 1

\* C36: no entry of the ordinal log holds the zero MdID, so getLatest and
\* getEarliest report no metadata only when the log is empty.
C36_NoZeroMdID ==
    /\ ZeroMdID \notin LogIds
    /\ j.ids # <<>> =>
         /\ getLatest(State, currentUID, TRUE).ibrmd # EmptyIBRMD
         /\ getEarliest(State, currentUID, TRUE).ibrmd # EmptyIBRMD

\* C37: when other calls run between getNextEntryToFlush and the matching
\* removeFlushedEntry, removeFlushedEntry(id, rmds) removes an entry only
\* if the earliest entry is still the one that was returned; if a
\* replace-head put, convertToBranch or clear changed or removed the
\* earliest entry in between, it returns an error and removes nothing;
\* appends in between do not prevent the removal.
C37_FlushInterleaved ==
    flushing # NotFlushing =>
      LET r == removeFlushedEntry(State, currentUID, flushing.id,
                                  flushing.rmds.MD, FALSE)
          taken == flushing.log
          same == /\ j.ids # <<>>
                  /\ Head(j.ids) = flushing.id
                  /\ flushing.id \in DOMAIN mds
                  /\ mds[flushing.id] = flushing.rmds.MD
          appended == /\ j.first = taken.first
                      /\ Len(j.ids) >= Len(taken.ids)
                      /\ SubSeq(j.ids, 1, Len(taken.ids)) = taken.ids
      IN /\ r.st.j # j => same /\ r.st.j.ids = Tail(j.ids)
         /\ ~same => r.err # "nil" /\ r.st = State
         /\ appended => /\ r.err = "nil"
                        /\ r.st.j.ids = Tail(j.ids)
                        /\ flushing.id \notin DOMAIN r.st.mds

\* C38: without crashes or I/O errors the content store holds no orphans:
\* every content file is referred to by some entry of the ordinal log, so
\* the content store is empty whenever the log is.
C38_NoOrphans ==
    /\ DOMAIN mds \subseteq LogIds
    /\ j.ids = <<>> => mds = EmptyStore

C40_FlushDrains ==
    LET n == Len(j.ids)
        end == mdIDJournal_readLatestRevision(j) + 1
        r == flushLoop(State, currentUID, end, n + 1)
        after == getNextEntryToFlush(r.st, currentUID, end, FALSE)
    IN /\ r.err = "nil"
       /\ r.removed = [i \in 1..n |-> j.first + (i - 1)]
       /\ r.st.j.ids = <<>>
       /\ after.err = "nil"
       /\ after.id = ZeroMdID
       /\ after.rmds = NilRMDS

====
